---- MODULE Spec2Model ----
(***************************************************************************)
(* A model of homework.py: the fitness-tracker calculator.                 *)
(*                                                                         *)
(* Numbers.  The program computes with Python ints and floats.  The model  *)
(* computes with exact rationals n/d (a float literal such as 0.65 is the  *)
(* rational 65/100), so a formula of the program is compared as exact      *)
(* arithmetic and never as rounded machine arithmetic.  The numerators     *)
(* and denominators outgrow TLC's 32-bit integers, so an integer is kept   *)
(* as a sign and a magnitude, the magnitude a little-endian sequence of    *)
(* limbs in 0..9999 without high zero limbs.  A division by zero is the    *)
(* value ZeroDivisionError, which every later operation hands on, as the   *)
(* exception unwinds the expression it is raised in.                       *)
(***************************************************************************)
EXTENDS Integers, Sequences, FiniteSets, TLC

(***************************************************************************)
(* Magnitudes: naturals of any size.                                       *)
(***************************************************************************)
RECURSIVE MStrip(_)
MStrip(a) ==
    IF a = <<>> THEN <<>>
    ELSE IF a[Len(a)] = 0 THEN MStrip(SubSeq(a, 1, Len(a) - 1))
    ELSE a

RECURSIVE MFromNat(_)
MFromNat(k) ==
    IF k = 0 THEN <<>> ELSE <<k % 10000>> \o MFromNat(k \div 10000)

RECURSIVE MAddC(_, _, _)
MAddC(a, b, c) ==
    IF a = <<>> /\ b = <<>> THEN (IF c = 0 THEN <<>> ELSE <<c>>)
    ELSE LET x == IF a = <<>> THEN 0 ELSE Head(a)
             y == IF b = <<>> THEN 0 ELSE Head(b)
             s == x + y + c
         IN  <<s % 10000>> \o MAddC(IF a = <<>> THEN <<>> ELSE Tail(a),
                                    IF b = <<>> THEN <<>> ELSE Tail(b),
                                    s \div 10000)

MAdd(a, b) == MAddC(a, b, 0)

\* a - b - c for a >= b + c, before the high zero limbs are removed
RECURSIVE MSubB(_, _, _)
MSubB(a, b, c) ==
    IF a = <<>> THEN <<>>
    ELSE LET y == IF b = <<>> THEN 0 ELSE Head(b)
             s == Head(a) - y - c
         IN  <<IF s < 0 THEN s + 10000 ELSE s>>
             \o MSubB(Tail(a), IF b = <<>> THEN <<>> ELSE Tail(b),
                      IF s < 0 THEN 1 ELSE 0)

MSub(a, b) == MStrip(MSubB(a, b, 0))

\* a < b, comparing from limb i downwards for magnitudes of equal length
RECURSIVE MLessFrom(_, _, _)
MLessFrom(a, b, i) ==
    IF i = 0 THEN FALSE
    ELSE IF a[i] # b[i] THEN a[i] < b[i]
    ELSE MLessFrom(a, b, i - 1)

MLess(a, b) ==
    IF Len(a) # Len(b) THEN Len(a) < Len(b) ELSE MLessFrom(a, b, Len(a))

\* a * k + c for one limb k
RECURSIVE MScaleC(_, _, _)
MScaleC(a, k, c) ==
    IF a = <<>> THEN (IF c = 0 THEN <<>> ELSE <<c>>)
    ELSE LET s == Head(a) * k + c
         IN  <<s % 10000>> \o MScaleC(Tail(a), k, s \div 10000)

MScale(a, k) == IF k = 0 THEN <<>> ELSE MScaleC(a, k, 0)

MShift(a) == IF a = <<>> THEN <<>> ELSE <<0>> \o a

RECURSIVE MMul(_, _)
MMul(a, b) ==
    IF a = <<>> \/ b = <<>> THEN <<>>
    ELSE MAdd(MScale(b, Head(a)), MShift(MMul(Tail(a), b)))

(***************************************************************************)
(* Integers of any size: a sign and a magnitude; zero is not negative.     *)
(***************************************************************************)
IMake(neg, mag) == [neg |-> neg /\ mag # <<>>, mag |-> mag]

IFromInt(i) == IMake(i < 0, MFromNat(IF i < 0 THEN -i ELSE i))

IIsZero(x) == x.mag = <<>>

IMul(x, y) == IMake(x.neg # y.neg, MMul(x.mag, y.mag))

IAdd(x, y) ==
    IF x.neg = y.neg THEN IMake(x.neg, MAdd(x.mag, y.mag))
    ELSE IF MLess(x.mag, y.mag) THEN IMake(y.neg, MSub(y.mag, x.mag))
    ELSE IMake(x.neg, MSub(x.mag, y.mag))

(***************************************************************************)
(* Numbers: exact rationals n/d with d # 0, or ZeroDivisionError.          *)
(***************************************************************************)
ZeroDivisionError == [err |-> "ZeroDivisionError"]

IsErr(x) == "err" \in DOMAIN x

Frac(n, d) == [n |-> IFromInt(n), d |-> IFromInt(d)]

Num(i) == Frac(i, 1)

NMul(x, y) ==
    IF IsErr(x) THEN x ELSE IF IsErr(y) THEN y
    ELSE [n |-> IMul(x.n, y.n), d |-> IMul(x.d, y.d)]

NDiv(x, y) ==
    IF IsErr(x) THEN x ELSE IF IsErr(y) THEN y
    ELSE IF IIsZero(y.n) THEN ZeroDivisionError
    ELSE [n |-> IMul(x.n, y.d), d |-> IMul(x.d, y.n)]

NAdd(x, y) ==
    IF IsErr(x) THEN x ELSE IF IsErr(y) THEN y
    ELSE [n |-> IAdd(IMul(x.n, y.d), IMul(y.n, x.d)), d |-> IMul(x.d, y.d)]

RECURSIVE NPow(_, _)
NPow(x, k) == IF k = 0 THEN Num(1) ELSE NMul(x, NPow(x, k - 1))

\* x == y of two numbers: n1/d1 = n2/d2 iff n1*d2 = n2*d1
NEq(x, y) ==
    IF IsErr(x) \/ IsErr(y) THEN x = y
    ELSE IMul(x.n, y.d) = IMul(y.n, x.d)

NIsNeg(x) == ~IIsZero(x.n) /\ (x.n.neg # x.d.neg)

(***************************************************************************)
(* '{x:.3f}': the decimal digits of x rounded to three places.  The value  *)
(* rounded is the exact rational, a tie going to the even digit as         *)
(* Python's correctly rounded formatting does; the sign of a float zero    *)
(* (-0.0) is not kept by an exact rational.                                *)
(***************************************************************************)
\* floor(n / d) as decimal digits, most significant first, and n mod d
RECURSIVE MDivMod(_, _)
MDivMod(n, d) ==
    IF MLess(n, d) THEN [q |-> <<>>, r |-> n]
    ELSE LET hi == MDivMod(n, MScale(d, 10))
             t  == CHOOSE k \in 0..9 :
                       /\ ~MLess(hi.r, MScale(d, k))
                       /\ MLess(hi.r, MScale(d, k + 1))
         IN  [q |-> Append(hi.q, t), r |-> MSub(hi.r, MScale(d, t))]

\* the decimal digits of q + 1
RECURSIVE DigitsInc(_)
DigitsInc(q) ==
    IF q = <<>> THEN <<1>>
    ELSE IF q[Len(q)] < 9 THEN [q EXCEPT ![Len(q)] = @ + 1]
    ELSE Append(DigitsInc(SubSeq(q, 1, Len(q) - 1)), 0)

RECURSIVE DigitsPad(_, _)
DigitsPad(q, width) == IF Len(q) >= width THEN q ELSE DigitsPad(<<0>> \o q, width)

Format3f(x) ==
    LET dm    == MDivMod(MScale(x.n.mag, 1000), x.d.mag)
        twice == MScale(dm.r, 2)
        odd   == dm.q # <<>> /\ dm.q[Len(dm.q)] % 2 = 1
        up    == MLess(x.d.mag, twice) \/ (twice = x.d.mag /\ odd)
        q     == DigitsPad(IF up THEN DigitsInc(dm.q) ELSE dm.q, 4)
    IN  [minus    |-> NIsNeg(x),
         integer  |-> SubSeq(q, 1, Len(q) - 3),
         fraction |-> SubSeq(q, Len(q) - 2, Len(q))]

(***************************************************************************)
(* Class attributes.                                                       *)
(***************************************************************************)
M_IN_KM == 1000

MIN_IN_HOUR == 60

\* attribute lookup: Swimming overrides Training.LEN_STEP
LEN_STEP(cls) == IF cls = "Swimming" THEN Frac(138, 100) ELSE Frac(65, 100)

SportsWalking_CALORIES_WEIGHT_MULTIPLIER == Frac(35, 1000)

CALORIES_SPEED_HEIGHT_MULTIPLIER == Frac(29, 1000)

KMH_IN_MSEC == Frac(278, 1000)

CM_IN_M == 100

POWER == 2

Swimming_CALORIES_MEAN_SPEED_SHIFT == Frac(11, 10)

Swimming_CALORIES_WEIGHT_MULTIPLIER == Num(2)

\* Running declares its two coefficients without ClassVar: they are fields
\* of the dataclass with these defaults, set by a 4th and 5th argument
Running_CALORIES_MEAN_SPEED_MULTIPLIER == Num(18)

Running_CALORIES_MEAN_SPEED_SHIFT == Frac(179, 100)

(***************************************************************************)
(* Exceptions and None.                                                    *)
(***************************************************************************)
TypeError == [err |-> "TypeError"]

NotImplementedError == [err |-> "NotImplementedError"]

AttributeError == [err |-> "AttributeError"]

None == [cls |-> "NoneType"]

(***************************************************************************)
(* The generated __init__ of each dataclass: the positional arguments fill *)
(* the fields in declaration order; too few or too many is a TypeError.    *)
(***************************************************************************)
Running_init(data) ==
    IF Len(data) < 3 \/ Len(data) > 5 THEN TypeError
    ELSE [cls      |-> "Running",
          action   |-> data[1],
          duration |-> data[2],
          weight   |-> data[3],
          CALORIES_MEAN_SPEED_MULTIPLIER |->
              IF Len(data) >= 4 THEN Num(data[4])
              ELSE Running_CALORIES_MEAN_SPEED_MULTIPLIER,
          CALORIES_MEAN_SPEED_SHIFT |->
              IF Len(data) >= 5 THEN Num(data[5])
              ELSE Running_CALORIES_MEAN_SPEED_SHIFT]

SportsWalking_init(data) ==
    IF Len(data) # 4 THEN TypeError
    ELSE [cls      |-> "SportsWalking",
          action   |-> data[1],
          duration |-> data[2],
          weight   |-> data[3],
          height   |-> data[4]]

\* a slip in the order of the two pool fields
Swimming_init_Swapped(data) ==
    IF Len(data) # 5 THEN TypeError
    ELSE [cls         |-> "Swimming",
          action      |-> data[1],
          duration    |-> data[2],
          weight      |-> data[3],
          length_pool |-> data[5],
          count_pool  |-> data[4]]

Swimming_init(data) ==
    IF Len(data) # 5 THEN TypeError
    ELSE [cls         |-> "Swimming",
          action      |-> data[1],
          duration    |-> data[2],
          weight      |-> data[3],
          length_pool |-> data[4],
          count_pool  |-> data[5]]

(***************************************************************************)
(* The methods, dispatched on the class of the instance.                   *)
(***************************************************************************)
get_distance(self) ==
    NDiv(NMul(Num(self.action), LEN_STEP(self.cls)), Num(M_IN_KM))

\* the division by the duration left out
Training_get_mean_speed_NoDivision(self) == get_distance(self)

\* a zero duration answered with a speed of zero
Training_get_mean_speed_Guarded(self) ==
    IF self.duration = 0 THEN Num(0)
    ELSE NDiv(get_distance(self), Num(self.duration))

Training_get_mean_speed(self) == NDiv(get_distance(self), Num(self.duration))

\* the override left out: the base formula over the strokes
Swimming_get_mean_speed_NotOverridden(self) ==
    NDiv(get_distance(self), Num(self.duration))

Swimming_get_mean_speed(self) ==
    NDiv(NDiv(NMul(Num(self.length_pool), Num(self.count_pool)), Num(M_IN_KM)),
         Num(self.duration))

get_mean_speed(self) ==
    IF self.cls = "Swimming" THEN Swimming_get_mean_speed(self)
    ELSE Training_get_mean_speed(self)

\* the duration taken in hours, not minutes
Running_get_spent_calories_InHours(self) ==
    NMul(NDiv(NMul(NAdd(NMul(self.CALORIES_MEAN_SPEED_MULTIPLIER,
                             get_mean_speed(self)),
                        self.CALORIES_MEAN_SPEED_SHIFT),
                   Num(self.weight)),
              Num(M_IN_KM)),
         Num(self.duration))

Running_get_spent_calories(self) ==
    NMul(NMul(NDiv(NMul(NAdd(NMul(self.CALORIES_MEAN_SPEED_MULTIPLIER,
                                  get_mean_speed(self)),
                             self.CALORIES_MEAN_SPEED_SHIFT),
                        Num(self.weight)),
                   Num(M_IN_KM)),
              Num(self.duration)),
         Num(MIN_IN_HOUR))

SportsWalking_get_spent_calories(self) ==
    NMul(NAdd(NMul(SportsWalking_CALORIES_WEIGHT_MULTIPLIER, Num(self.weight)),
              NMul(NMul(NDiv(NPow(NMul(KMH_IN_MSEC, get_mean_speed(self)), POWER),
                             NDiv(Num(self.height), Num(CM_IN_M))),
                        CALORIES_SPEED_HEIGHT_MULTIPLIER),
                   Num(self.weight))),
         NMul(Num(MIN_IN_HOUR), Num(self.duration)))

Swimming_get_spent_calories(self) ==
    NMul(NMul(NMul(NAdd(get_mean_speed(self), Swimming_CALORIES_MEAN_SPEED_SHIFT),
                   Swimming_CALORIES_WEIGHT_MULTIPLIER),
              Num(self.weight)),
         Num(self.duration))

\* a variant left without its override of the base method
get_spent_calories_BaseForSwimming(self) ==
    CASE self.cls = "Running"       -> Running_get_spent_calories(self)
      [] self.cls = "SportsWalking" -> SportsWalking_get_spent_calories(self)
      [] OTHER                      -> NotImplementedError

get_spent_calories(self) ==
    CASE self.cls = "Running"       -> Running_get_spent_calories(self)
      [] self.cls = "SportsWalking" -> SportsWalking_get_spent_calories(self)
      [] self.cls = "Swimming"      -> Swimming_get_spent_calories(self)
      [] OTHER                      -> NotImplementedError

\* the InfoMessage, or the exception the first failing argument raises
show_training_info(self) ==
    LET distance == get_distance(self)
        speed    == get_mean_speed(self)
        calories == get_spent_calories(self)
    IN  IF IsErr(distance) THEN distance
        ELSE IF IsErr(speed) THEN speed
        ELSE IF IsErr(calories) THEN calories
        ELSE [training_type |-> self.cls,
              duration      |-> self.duration,
              distance      |-> distance,
              speed         |-> speed,
              calories      |-> calories]

\* the template's fields in its order, each number as '{:.3f}' renders it
get_message(info) ==
    <<info.training_type,
      Format3f(Num(info.duration)),
      Format3f(info.distance),
      Format3f(info.speed),
      Format3f(info.calories)>>

(***************************************************************************)
(* read_package: what it returns or raises, and what it prints.  Only a    *)
(* KeyError is caught; the handler prints and falls off the end of the     *)
(* function, which returns None.                                           *)
(***************************************************************************)
KnownTypes == {"SWM", "RUN", "WLK"}

read_package(workout_type, data) ==
    IF workout_type \notin KnownTypes
    THEN [value |-> None, printed |-> <<<<"unknown workout type", workout_type>>>>]
    ELSE [value   |-> CASE workout_type = "SWM" -> Swimming_init(data)
                        [] workout_type = "RUN" -> Running_init(data)
                        [] workout_type = "WLK" -> SportsWalking_init(data),
          printed |-> <<>>]

(***************************************************************************)
(* The driver: the loop over packages, main called on what read_package    *)
(* returned.  An exception nothing catches ends the program.               *)
(***************************************************************************)
VARIABLES
    packages,   \* the list the loop iterates
    i,          \* the position of the loop in packages
    pc,         \* the call the program is about to make
    training,   \* the loop's variable training
    info,       \* the InfoMessage show_training_info returned
    message,    \* the text get_message returned
    stdout,     \* what has been printed, line by line
    exc         \* the uncaught exception, once pc = "traceback"

vars == <<packages, i, pc, training, info, message, stdout, exc>>

Unbound == [cls |-> "<unbound>"]

NoException == [err |-> "<none>"]

\* bounds of the model
MaxReading == 2

MaxPackages == 2

Readings == -1..MaxReading

\* from one reading fewer than any class takes to one more than any takes
DataLengths == 2..6

DataLists == UNION {[1..n -> Readings] : n \in DataLengths}

WorkoutTypes == KnownTypes \cup {"XYZ"}

\* the three packages of the program, and three that fail: an unknown
\* type, a duration of zero, a reading missing
SamplePackages ==
    {<<"SWM", <<720, 1, 80, 25, 40>>>>,
     <<"RUN", <<15000, 1, 75>>>>,
     <<"WLK", <<9000, 1, 75, 180>>>>,
     <<"XYZ", <<1, 2, 3>>>>,
     <<"RUN", <<15000, 0, 75>>>>,
     <<"WLK", <<9000, 1, 75>>>>}

PackageLists ==
    {<<<<t, d>>>> : t \in WorkoutTypes, d \in DataLists}
    \cup UNION {[1..n -> SamplePackages] : n \in 0..MaxPackages}

Init ==
    /\ packages \in PackageLists
    /\ i = 1
    /\ pc = "read_package"
    /\ training = Unbound
    /\ info = Unbound
    /\ message = <<>>
    /\ stdout = <<>>
    /\ exc = NoException

\* training = read_package(workout_type, data)
ReadPackage ==
    /\ pc = "read_package"
    /\ i <= Len(packages)
    /\ LET r == read_package(packages[i][1], packages[i][2])
       IN  /\ stdout' = stdout \o r.printed
           /\ IF IsErr(r.value)
              THEN /\ exc' = r.value
                   /\ pc' = "traceback"
                   /\ UNCHANGED training
              ELSE /\ training' = r.value
                   /\ pc' = "show_training_info"
                   /\ UNCHANGED exc
    /\ UNCHANGED <<packages, i, info, message>>

\* main: training.show_training_info()
ShowTrainingInfo ==
    /\ pc = "show_training_info"
    /\ LET r == IF training.cls = "NoneType" THEN AttributeError
                ELSE show_training_info(training)
       IN  IF IsErr(r)
           THEN /\ exc' = r
                /\ pc' = "traceback"
                /\ UNCHANGED info
           ELSE /\ info' = r
                /\ pc' = "get_message"
                /\ UNCHANGED exc
    /\ UNCHANGED <<packages, i, training, message, stdout>>

\* main: .get_message()
GetMessage ==
    /\ pc = "get_message"
    /\ message' = get_message(info)
    /\ pc' = "print"
    /\ UNCHANGED <<packages, i, training, info, stdout, exc>>

\* the output kept newest first
PrintMessage_Prepend ==
    /\ pc = "print"
    /\ stdout' = <<message>> \o stdout
    /\ i' = i + 1
    /\ pc' = "read_package"
    /\ UNCHANGED <<packages, training, info, message, exc>>

\* main: print(...), and the loop goes on to the next package
PrintMessage ==
    /\ pc = "print"
    /\ stdout' = Append(stdout, message)
    /\ i' = i + 1
    /\ pc' = "read_package"
    /\ UNCHANGED <<packages, training, info, message, exc>>

\* the loop has no package left
Exit ==
    /\ pc = "read_package"
    /\ i > Len(packages)
    /\ pc' = "exit"
    /\ UNCHANGED <<packages, i, training, info, message, stdout, exc>>

Next == ReadPackage \/ ShowTrainingInfo \/ GetMessage \/ PrintMessage \/ Exit

Spec == Init /\ [][Next]_vars

(***************************************************************************)
(* The properties.                                                         *)
(***************************************************************************)
\* the package the loop is at, while there is one
AtPackage == i <= Len(packages)

Tag == packages[i][1]

Data == packages[i][2]

\* read_package has returned for the package the loop is at
Dispatched == AtPackage /\ pc # "read_package"

\* show_training_info has returned an InfoMessage for that package
Summarised == AtPackage /\ pc \in {"get_message", "print"}

IsInstance(t) == t.cls \in {"Running", "SportsWalking", "Swimming"}

\* the number of readings the interface gives each tag
FieldCount(tag) ==
    CASE tag = "SWM" -> 5 [] tag = "RUN" -> 3 [] tag = "WLK" -> 4

ClassOf(tag) ==
    CASE tag = "SWM" -> "Swimming" [] tag = "RUN" -> "Running"
      [] tag = "WLK" -> "SportsWalking"

\* a record whose processing cannot fail
ValidRecord(p) ==
    /\ p[1] \in KnownTypes
    /\ Len(p[2]) = FieldCount(p[1])
    /\ p[2][2] # 0
    /\ p[1] = "WLK" => p[2][4] # 0

AllValid == \A k \in 1..Len(packages) : ValidRecord(packages[k])

\* the line of a valid record, computed from the record alone
LineOf(p) == get_message(show_training_info(read_package(p[1], p[2]).value))

\* every reading of the package the loop is at is positive
Positive == \A k \in 1..Len(Data) : Data[k] > 0

\* C1: for a tag that is none of SWM, RUN, WLK, read_package ends in an
\* explicit unknown-workout-type failure; it never returns normally and
\* hands the caller an absent (None) Training.
C1_UnknownTypeIsAFailure ==
    (Dispatched /\ Tag \notin KnownTypes)
        => (pc = "traceback" /\ training.cls # "NoneType")

\* C2: a record whose processing fails does not stop the batch: the program
\* never ends in an uncaught exception while records follow the failing one.
C2_FailureDoesNotStopBatch ==
    pc = "traceback" => i >= Len(packages)

\* C3: for a known tag, read_package fails at construction whenever the
\* number of readings differs from the tag's field count, and the
\* coefficients of a Running are always 18.0 and 1.79.
C3_ArityMismatchIsAFailure ==
    /\ (Dispatched /\ Tag \in KnownTypes /\ Len(Data) # FieldCount(Tag))
           => (pc = "traceback" /\ exc = TypeError)
    /\ training.cls = "Running"
           => /\ NEq(training.CALORIES_MEAN_SPEED_MULTIPLIER, Num(18))
              /\ NEq(training.CALORIES_MEAN_SPEED_SHIFT, Frac(179, 100))

\* C4: for a known tag and readings of the tag's exact length, read_package
\* returns an instance of the class mapped to the tag whose fields are the
\* readings taken positionally: action, duration, weight, then height for
\* WLK, or length_pool, count_pool for SWM.
C4_DispatchBuildsTheVariant ==
    (Dispatched /\ Tag \in KnownTypes /\ Len(Data) = FieldCount(Tag))
        => /\ pc # "traceback" \/ exc # TypeError
           /\ training.cls = ClassOf(Tag)
           /\ training.action = Data[1]
           /\ training.duration = Data[2]
           /\ training.weight = Data[3]
           /\ Tag = "WLK" => training.height = Data[4]
           /\ Tag = "SWM" => /\ training.length_pool = Data[4]
                             /\ training.count_pool = Data[5]
           /\ Tag = "RUN" => /\ NEq(training.CALORIES_MEAN_SPEED_MULTIPLIER, Num(18))
                             /\ NEq(training.CALORIES_MEAN_SPEED_SHIFT, Frac(179, 100))

C4_Witness ==
    /\ Dispatched /\ pc = "show_training_info"
    /\ Data[1] > 0 /\ Data[2] > 0 /\ Data[3] > 0
    /\ Tag = "SWM" /\ Len(Data) = 5
    /\ Data[4] # Data[5]
    /\ training.length_pool = Data[4]

\* C5: for a Running built from a RUN record (action, duration, weight) with
\* duration not zero, calories = (18.0 * mean_speed + 1.79) * weight / 1000
\* * duration * 60 with mean_speed = action * 0.65 / 1000 / duration.
C5_RunningCalories ==
    (Summarised /\ Tag = "RUN" /\ Len(Data) = 3)
        => LET mean_speed ==
                   NDiv(NDiv(NMul(Num(Data[1]), Frac(65, 100)), Num(1000)),
                        Num(Data[2]))
           IN  /\ NEq(info.speed, mean_speed)
               /\ NEq(info.calories,
                      NMul(NMul(NDiv(NMul(NAdd(NMul(Num(18), mean_speed),
                                               Frac(179, 100)),
                                          Num(Data[3])),
                                     Num(1000)),
                                Num(Data[2])),
                           Num(60)))

C5_Witness ==
    /\ Summarised /\ Tag = "RUN" /\ Len(Data) = 3
    /\ Positive
    /\ ~NEq(info.calories, Num(0))

\* C6: for a Swimming with duration not zero, mean speed = length_pool *
\* count_pool / 1000 / duration and calories = (mean_speed + 1.1) * 2.0 *
\* weight * duration, so a record that differs only in its action count has
\* the same mean speed and the same calories.
C6_SwimmingSpeedIgnoresAction ==
    (Summarised /\ Tag = "SWM")
        => LET mean_speed ==
                   NDiv(NDiv(NMul(Num(Data[4]), Num(Data[5])), Num(1000)),
                        Num(Data[2]))
           IN  /\ NEq(info.speed, mean_speed)
               /\ NEq(info.calories,
                      NMul(NMul(NMul(NAdd(mean_speed, Frac(11, 10)), Num(2)),
                                Num(Data[3])),
                           Num(Data[2])))
               /\ \A a \in Readings \cup {720} :
                      LET other == show_training_info([training EXCEPT !.action = a])
                      IN  /\ NEq(other.speed, info.speed)
                          /\ NEq(other.calories, info.calories)

C6_Witness ==
    /\ Summarised /\ Tag = "SWM" /\ Positive
    /\ ~NEq(info.speed, Num(0))
    /\ ~NEq(info.distance, get_distance([training EXCEPT !.action = 720]))

\* C7 as claimed: in every summary, of every variant, the mean speed is the
\* distance divided by the duration (speed * duration = distance).
C7_SpeedIsDistanceOverDuration ==
    (Summarised /\ Positive) => NEq(NMul(info.speed, Num(info.duration)), info.distance)

\* C7 as amended: speed * duration = distance in the summary of a Running
\* or a SportsWalking; in the summary of a Swimming, speed * duration =
\* length_pool * count_pool / 1000, while distance = action * 1.38 / 1000.
C7_SpeedTimesDuration ==
    Summarised
        => /\ info.training_type \in {"Running", "SportsWalking"}
                  => NEq(NMul(info.speed, Num(info.duration)), info.distance)
           /\ info.training_type = "Swimming"
                  => /\ NEq(NMul(info.speed, Num(info.duration)),
                            NDiv(NMul(Num(training.length_pool),
                                      Num(training.count_pool)), Num(1000)))
                     /\ NEq(info.distance,
                            NDiv(NMul(Num(training.action), Frac(138, 100)),
                                 Num(1000)))

C7_Witness ==
    /\ Summarised
    /\ info.training_type = "SportsWalking"
    /\ Positive /\ info.duration # 1
    /\ ~NEq(info.distance, Num(0))

\* C8 as claimed: a record with duration zero or with a negative reading
\* makes show_training_info fail; no summary is produced for such a record.
C8_NoSummaryForZeroOrNegative ==
    Summarised
        => /\ training.duration # 0
           /\ \A k \in 1..Len(Data) : Data[k] >= 0

\* C8 as amended: a record with duration zero, and a SportsWalking record with
\* height zero, makes show_training_info fail with ZeroDivisionError and no
\* summary is produced for it; show_training_info fails for no other record,
\* so a negative reading alone yields a summary.
C8_ZeroDurationFails ==
    /\ Summarised
           => /\ training.duration # 0
              /\ training.cls = "SportsWalking" => training.height # 0
    /\ (IsInstance(training) /\ training.duration = 0)
           => \/ pc = "show_training_info"
              \/ pc = "traceback" /\ exc = ZeroDivisionError
    /\ (pc = "traceback" /\ exc \notin {TypeError, AttributeError})
           => /\ exc = ZeroDivisionError
              /\ IsInstance(training)
              /\ \/ training.duration = 0
                 \/ training.cls = "SportsWalking" /\ training.height = 0

C8_Witness ==
    /\ pc = "traceback" /\ exc = ZeroDivisionError
    /\ training.cls = "Swimming" /\ training.duration = 0
    /\ training.action > 0 /\ training.weight > 0
    /\ training.length_pool > 0 /\ training.count_pool > 0

\* a negative reading with a summary: the case the amendment of C8 leaves out
C8_NegativeWitness ==
    Summarised /\ \E k \in 1..Len(Data) : Data[k] < 0

\* C9: for a list of valid records the driver prints one line per record in
\* the order of the list, a record is printed before the next is dispatched,
\* and the line of a record is a function of that record alone.
C9_OneLinePerRecordInOrder ==
    AllValid
        => /\ pc # "traceback"
           /\ Len(stdout) = i - 1
           /\ \A k \in 1..Len(stdout) : stdout[k] = LineOf(packages[k])
           /\ pc = "exit" => Len(stdout) = Len(packages)

C9_Witness ==
    /\ AllValid /\ pc = "exit"
    /\ Len(packages) = 2 /\ Len(stdout) = 2
    /\ stdout[1] # stdout[2]

====
